---- MODULE Spec2Model ----
(***************************************************************************)
(* Model of eval/qa_metrics.py: the answer-quality evaluation harness.     *)
(* Strings are sequences of one-character strings, so that norm, split,    *)
(* basename and splitext are computed character by character as the        *)
(* Python code computes them.                                              *)
(***************************************************************************)
EXTENDS Integers, Sequences, FiniteSets, TLC

(* ------------------------------------------------------------------ *)
(* Bounds of the model                                                *)
(* ------------------------------------------------------------------ *)
MaxLines == 3    \* lines in the dataset file
MaxN == 3        \* largest value of --n
MaxStrLen == 3   \* length of the prediction given to norm / exact_match
MaxGoldLen == 2  \* length of the gold answer given to exact_match
MaxToks == 2     \* tokens of a prediction or gold given to f1
MaxGolds == 2    \* gold answers of one call of f1
MaxSources == 2  \* source records of one call of doc_recall_at_k

(* ------------------------------------------------------------------ *)
(* Text helpers                                                       *)
(* ------------------------------------------------------------------ *)

\* str.lower(), on the letters the model uses
lower_char(c) ==
    CASE c = "A" -> "a"
      [] c = "B" -> "b"
      [] c = "I" -> "i"
      [] OTHER -> c

lower(s) == [k \in 1..Len(s) |-> lower_char(s[k])]

\* \s of the regular expression and the whitespace of str.strip / str.split
IsSpace(c) == c \in {" ", "\t"}

\* mutant: the class without the period, [a-z0-9%]
KeptCharsNoDot ==
    {"a","b","c","d","e","f","g","h","i","j","k","l","m","n","o","p","q","r",
     "s","t","u","v","w","x","y","z","0","1","2","3","4","5","6","7","8","9",
     "%"}

\* the class [a-z0-9%.] of the regular expression in norm
KeptChars ==
    {"a","b","c","d","e","f","g","h","i","j","k","l","m","n","o","p","q","r",
     "s","t","u","v","w","x","y","z","0","1","2","3","4","5","6","7","8","9",
     "%","."}

RECURSIVE lstrip(_)
lstrip(s) == IF s # <<>> /\ IsSpace(Head(s)) THEN lstrip(Tail(s)) ELSE s

RECURSIVE rstrip(_)
rstrip(s) ==
    IF s # <<>> /\ IsSpace(s[Len(s)]) THEN rstrip(SubSeq(s, 1, Len(s) - 1)) ELSE s

\* str.strip()
strip(s) == rstrip(lstrip(s))

RECURSIVE DropNotKept(_)
DropNotKept(s) ==
    IF s # <<>> /\ Head(s) \notin KeptChars THEN DropNotKept(Tail(s)) ELSE s

\* re.sub(r"[^a-z0-9%.]+", " ", s): every maximal run becomes one space
RECURSIVE sub_not_kept(_)
sub_not_kept(s) ==
    IF s = <<>> THEN <<>>
    ELSE IF Head(s) \notin KeptChars
         THEN <<" ">> \o sub_not_kept(DropNotKept(s))
         ELSE <<Head(s)>> \o sub_not_kept(Tail(s))

\* re.sub(r"\s+", " ", s)
RECURSIVE sub_spaces(_)
sub_spaces(s) ==
    IF s = <<>> THEN <<>>
    ELSE IF IsSpace(Head(s))
         THEN <<" ">> \o sub_spaces(lstrip(s))
         ELSE <<Head(s)>> \o sub_spaces(Tail(s))

\* norm: lower-case and strip first, then the two substitutions
norm(s) == sub_spaces(sub_not_kept(strip(lower(s))))

RECURSIVE TakeWord(_)
TakeWord(s) ==
    IF s = <<>> \/ IsSpace(Head(s)) THEN <<>> ELSE <<Head(s)>> \o TakeWord(Tail(s))

\* str.split(): the maximal runs of non-whitespace characters
RECURSIVE split(_)
split(s) ==
    LET t == lstrip(s) IN
    IF t = <<>> THEN <<>>
    ELSE LET w == TakeWord(t) IN <<w>> \o split(SubSeq(t, Len(w) + 1, Len(t)))

\* list.count
count(toks, t) == Cardinality({k \in 1..Len(toks) : toks[k] = t})

Range(s) == {s[k] : k \in 1..Len(s)}

Min(a, b) == IF a <= b THEN a ELSE b

RECURSIVE SetSum(_, _)
SetSum(S, f) ==
    IF S = {} THEN 0
    ELSE LET x == CHOOSE y \in S : TRUE IN f[x] + SetSum(S \ {x}, f)

RECURSIVE Gcd(_, _)
Gcd(a, b) == IF b = 0 THEN a ELSE Gcd(b, a % b)

\* a score as a reduced fraction <<numerator, denominator>>
Frac(a, b) == LET g == Gcd(a, b) IN <<a \div g, b \div g>>

FracLess(x, y) == x[1] * y[2] < y[1] * x[2]

FracAdd(x, y) == Frac(x[1] * y[2] + y[1] * x[2], x[2] * y[2])

FracMul(x, y) == Frac(x[1] * y[1], x[2] * y[2])

FracDiv(x, y) == Frac(x[1] * y[2], x[2] * y[1])

\* mutant: the overlap counts each shared token once (set overlap)
f1_pair_set_overlap(p, g) ==
    LET p_toks == split(norm(p))
        g_toks == split(norm(g))
        overlap == Cardinality(Range(p_toks) \cap Range(g_toks))
    IN  IF p_toks = <<>> /\ g_toks = <<>> THEN <<1, 1>>
        ELSE IF p_toks = <<>> \/ g_toks = <<>> THEN <<0, 1>>
        ELSE IF overlap = 0 THEN <<0, 1>>
        ELSE LET prec == Frac(overlap, Len(p_toks))
                 rec == Frac(overlap, Len(g_toks))
             IN  FracDiv(FracMul(<<2, 1>>, FracMul(prec, rec)), FracAdd(prec, rec))

\* f1_pair of f1, with prec, rec and 2*prec*rec/(prec+rec) as exact fractions
\* (the rounding of Python's floats is not modelled)
f1_pair(p, g) ==
    LET p_toks == split(norm(p))
        g_toks == split(norm(g))
        shared == Range(p_toks) \cap Range(g_toks)
        common == [t \in shared |-> Min(count(p_toks, t), count(g_toks, t))]
        overlap == SetSum(shared, common)
    IN  IF p_toks = <<>> /\ g_toks = <<>> THEN <<1, 1>>
        ELSE IF p_toks = <<>> \/ g_toks = <<>> THEN <<0, 1>>
        ELSE IF overlap = 0 THEN <<0, 1>>
        ELSE LET prec == Frac(overlap, Len(p_toks))
                 rec == Frac(overlap, Len(g_toks))
             IN  FracDiv(FracMul(<<2, 1>>, FracMul(prec, rec)), FracAdd(prec, rec))

\* mutant: the score of the first gold instead of the best one
FracFirst(xs) == xs[1]

\* max(...) over the golds: the first of the largest pairwise scores
RECURSIVE FracMax(_)
FracMax(xs) ==
    IF Len(xs) = 1 THEN xs[1]
    ELSE LET m == FracMax(SubSeq(xs, 1, Len(xs) - 1)) IN
         IF FracLess(m, xs[Len(xs)]) THEN xs[Len(xs)] ELSE m

f1(pred, golds) == FracMax([k \in 1..Len(golds) |-> f1_pair(pred, golds[k])])

\* mutant: the prediction is compared as given, only the golds are normalized
exact_match_raw_pred(pred, golds) ==
    IF \E k \in 1..Len(golds) : pred = norm(golds[k]) THEN 1 ELSE 0

exact_match(pred, golds) ==
    LET p == norm(pred) IN
    IF \E k \in 1..Len(golds) : p = norm(golds[k]) THEN 1 ELSE 0

\* os.path.basename: what follows the last "/"
RECURSIVE basename(_)
basename(p) ==
    IF \E k \in 1..Len(p) : p[k] = "/"
    THEN basename(Tail(p))
    ELSE p

\* os.path.splitext(b)[0]: cut at the last ".", unless only dots precede it
splitext_root(b) ==
    LET dots == {k \in 1..Len(b) : b[k] = "."} IN
    IF dots = {} THEN b
    ELSE LET d == CHOOSE k \in dots : \A j \in dots : j <= k IN
         IF \E j \in 1..(d - 1) : b[j] # "." THEN SubSeq(b, 1, d - 1) ELSE b

\* mutant: the extension is cut but the directory is kept
stem_keeps_dir(p) == splitext_root(p)

stem(p) == splitext_root(basename(p))

doc_recall_at_k(sources, gold_doc_name) ==
    LET gd == stem(gold_doc_name) IN
    IF \E k \in 1..Len(sources) :
          LET sd == stem(sources[k]) IN gd # <<>> /\ sd # <<>> /\ gd = sd
    THEN 1 ELSE 0

(* ------------------------------------------------------------------ *)
(* Python values of the dataset records                               *)
(* ------------------------------------------------------------------ *)
PyNone == [t |-> "none", v |-> <<>>]
PyStr(s) == [t |-> "str", v |-> s]
PyList(l) == [t |-> "list", v |-> l]

\* truth value of a Python object: None, "" and [] are false
Truthy(x) == x.t # "none" /\ x.v # <<>>

\* Python's `a or b`
Or(a, b) == IF Truthy(a) THEN a ELSE b

\* q = ex.get("question") or ex.get("query") or ""
GetQ(ex) == Or(Or(ex.question, ex.query), PyStr(<<>>))

\* golds = [gold] if isinstance(gold, str) else (gold or [])
GetGolds(ex) ==
    IF ex.answer.t = "str" THEN <<ex.answer.v>> ELSE Or(ex.answer, PyList(<<>>)).v

\* mutant: the gold answers are not looked at
SkippableQuestionOnly(ex) == ~Truthy(GetQ(ex))

\* if not q or not golds
Skippable(ex) == ~Truthy(GetQ(ex)) \/ GetGolds(ex) = <<>>

\* seq[:n], Python's slice with a possibly negative stop
Slice(seq, n) ==
    LET stop == IF n >= 0 THEN Min(n, Len(seq))
                ELSE IF Len(seq) + n > 0 THEN Len(seq) + n ELSE 0
    IN  SubSeq(seq, 1, stop)

\* load_jsonl: the objects of the non-blank lines; json.loads raises on a
\* malformed line
\* mutant: a malformed line is skipped like a blank one
RECURSIVE load_jsonl_lenient(_)
load_jsonl_lenient(lines) ==
    IF lines = <<>> THEN [raised |-> FALSE, out |-> <<>>]
    ELSE LET l == Head(lines)
             rest == load_jsonl_lenient(Tail(lines))
         IN  IF l.t = "obj"
             THEN [raised |-> FALSE, out |-> <<l.ex>> \o rest.out]
             ELSE rest

RECURSIVE load_jsonl(_)
load_jsonl(lines) ==
    IF lines = <<>> THEN [raised |-> FALSE, out |-> <<>>]
    ELSE LET l == Head(lines) IN
         IF l.t = "blank" THEN load_jsonl(Tail(lines))
         ELSE IF l.t = "bad" THEN [raised |-> TRUE, out |-> <<>>]
         ELSE LET rest == load_jsonl(Tail(lines)) IN
              [raised |-> rest.raised,
               out |-> IF rest.raised THEN <<>> ELSE <<l.ex>> \o rest.out]

(* ------------------------------------------------------------------ *)
(* Inputs                                                             *)
(* ------------------------------------------------------------------ *)
DEFAULT_FILE == "data/financebench/data/financebench_open_source.jsonl"
DotDefault == "./data/financebench/data/financebench_open_source.jsonl"
UserFile == "my.jsonl"

\* the file a path names: "./x" and "x" are the same file
FileOf(p) == IF p = DotDefault THEN DEFAULT_FILE ELSE p

sQ == <<"q">>
sA == <<"a">>
sAB == <<"a", " ", "b">>

\* one example that is sent (its question under the fallback key, two golds)
\* and the two kinds that are skipped: no question, no gold answer
Examples ==
    { [question |-> PyNone, query |-> PyStr(sQ), answer |-> PyList(<<sAB, <<"b">>>>),
       doc_name |-> <<"r", "/", "x", ".", "p">>],
      [question |-> PyStr(<<>>), query |-> PyNone, answer |-> PyStr(sA),
       doc_name |-> <<>>],
      [question |-> PyStr(sQ), query |-> PyNone, answer |-> PyList(<<>>),
       doc_name |-> <<>>] }

LineKinds ==
    {[t |-> "blank", ex |-> PyNone], [t |-> "bad", ex |-> PyNone]}
    \cup {[t |-> "obj", ex |-> e] : e \in Examples}

FileContents == UNION {[1..m -> LineKinds] : m \in 0..MaxLines}

NValues == {-1} \cup 0..MaxN
EveryValues == {0, 2}

ArgSets ==
    [file : {UserFile, DEFAULT_FILE}, n : NValues, every : EveryValues,
     progress : BOOLEAN, save_csv : BOOLEAN]

\* answers and source lists of the service's replies, and measured latencies
Answers == {sA, sAB}
SourceLists == {<<>>, <<<<"a", "/", "x", ".", "t">>>>}
Latencies == {1}
HealthOutcomes == {"200", "503", "failed"}
TransportErrors == {"ConnectionError", "Timeout"}

(* ------------------------------------------------------------------ *)
(* State                                                              *)
(* ------------------------------------------------------------------ *)
VARIABLES
    pc,        \* position in main
    args,      \* the parsed command line
    fpath,     \* result of ensure_file
    probed,    \* the paths os.path.exists was asked about, in order
    exit_code, \* -1 while running, then the process's exit status
    exc,       \* the uncaught exception that ended the run, or "none"
    loaded,    \* result of load_jsonl, until it is sliced
    f_lines,   \* the lines load_jsonl read from the file, until the slice
    data, total,
    i,         \* 1-based index of the example of the loop
    ok, ems, f1s, recs, lat,
    fcsv,      \* "none", "open" or "closed"
    rows,      \* data rows of the export file
    out,       \* lines written to standard output
    requests,  \* the example indices POSTed to /ask/, in order
    inflight,  \* requests sent and not yet answered or failed
    cur,       \* em, f1v, rc, dt of the example being processed
    report,    \* the aggregate lines printed
    replies,   \* history: the decoded 2xx replies, as <<index, answer>>
    call       \* a call of a scorer function: its arguments and its result

vars == <<pc, args, fpath, probed, exit_code, exc, loaded, f_lines, data, total, i, ok,
          ems, f1s, recs, lat, fcsv, rows, out, requests, inflight, cur, report,
          replies, call>>

NoCall ==
    [fn |-> "none", kind |-> "strings", pred |-> <<>>, gold |-> <<>>, golds |-> <<>>,
     doc |-> <<>>, sources |-> <<>>, result |-> <<>>]

NoCur == [em |-> 0, f1v |-> <<0, 1>>, rc |-> 0, dt |-> 0]

Line(k, idx, d) == [k |-> k, i |-> idx, d |-> d]

Init ==
    /\ pc = "start"
    /\ args \in ArgSets
    /\ fpath = ""
    /\ probed = <<>>
    /\ exit_code = -1
    /\ exc = "none"
    /\ loaded = <<>>
    /\ f_lines = <<>>
    /\ data = <<>>
    /\ total = 0
    /\ i = 0
    /\ ok = 0
    /\ ems = <<>> /\ f1s = <<>> /\ recs = <<>> /\ lat = <<>>
    /\ fcsv = "none"
    /\ rows = <<>>
    /\ out = <<>>
    /\ requests = <<>>
    /\ inflight = 0
    /\ cur = NoCur
    /\ report = <<>>
    /\ replies = <<>>
    /\ call = NoCall

(* ------------------------------------------------------------------ *)
(* Arithmetic of the final report                                     *)
(* ------------------------------------------------------------------ *)
RECURSIVE Sum(_)
Sum(xs) == IF xs = <<>> THEN 0 ELSE Head(xs) + Sum(Tail(xs))

RECURSIVE FracSum(_)
FracSum(xs) == IF xs = <<>> THEN <<0, 1>> ELSE FracAdd(Head(xs), FracSum(Tail(xs)))

RECURSIVE Insert(_, _)
Insert(x, xs) ==
    IF xs = <<>> THEN <<x>>
    ELSE IF x <= Head(xs) THEN <<x>> \o xs
    ELSE <<Head(xs)>> \o Insert(x, Tail(xs))

RECURSIVE Sorted(_)
Sorted(xs) == IF xs = <<>> THEN <<>> ELSE Insert(Head(xs), Sorted(Tail(xs)))

\* statistics.median of a non-empty list
median(xs) ==
    LET d == Sorted(xs)
        m == Len(d)
    IN  IF m % 2 = 1 THEN Frac(d[(m + 1) \div 2], 1)
        ELSE Frac(d[m \div 2] + d[m \div 2 + 1], 2)

\* the aggregate line: n, EM, F1, R@k and Latency(P50)
RunReport ==
    [n |-> ok,
     em |-> Frac(Sum(ems), ok),
     f1 |-> LET t == FracSum(f1s) IN Frac(t[1], t[2] * ok),
     rec |-> Frac(Sum(recs), ok),
     p50 |-> median(lat)]

(* ------------------------------------------------------------------ *)
(* Preflight: ensure_file, health_check, load and truncate            *)
(* ------------------------------------------------------------------ *)
loopVars == <<i, ok, ems, f1s, recs, lat, rows, requests, inflight, cur, report,
              replies, call>>

\* the candidates of ensure_file, in the order they are probed
Candidates(path) == <<path, DEFAULT_FILE, DotDefault>>

\* the position of the first candidate that exists, 0 when none does
FirstExisting(cands, fs) ==
    IF \E k \in 1..Len(cands) : FileOf(cands[k]) \in fs
    THEN CHOOSE k \in 1..Len(cands) :
            /\ FileOf(cands[k]) \in fs
            /\ \A j \in 1..(k - 1) : FileOf(cands[j]) \notin fs
    ELSE 0

\* the paths the error message of ensure_file names
TriedMessage(path) == <<path, DEFAULT_FILE>>

\* fpath = ensure_file(args.file), for some set fs of existing files
EnsureFile ==
    /\ pc = "start"
    /\ \E fs \in SUBSET {UserFile, DEFAULT_FILE} :
         LET cands == Candidates(args.file)
             hit == FirstExisting(cands, fs)
         IN  IF hit > 0
             THEN /\ fpath' = cands[hit]
                  /\ probed' = SubSeq(cands, 1, hit)
                  /\ out' = Append(out, Line("using", 0, <<cands[hit]>>))
                  /\ pc' = "health"
                  /\ exit_code' = exit_code
             ELSE /\ fpath' = fpath
                  /\ probed' = cands
                  /\ out' = Append(out, Line("notfound", 0, TriedMessage(args.file)))
                  /\ pc' = "exited"
                  /\ exit_code' = 1
    /\ UNCHANGED <<args, exc, loaded, f_lines, data, total, fcsv>>
    /\ UNCHANGED loopVars

\* mutant: a failed probe ends the run
HealthCheckAborts ==
    /\ pc = "health"
    /\ \E h \in HealthOutcomes :
         /\ out' = Append(out, Line(IF h = "failed" THEN "warn" ELSE "health", 0, <<h>>))
         /\ pc' = IF h = "failed" THEN "exited" ELSE "load"
         /\ exit_code' = IF h = "failed" THEN 1 ELSE exit_code
    /\ UNCHANGED <<args, fpath, probed, exc, loaded, f_lines, data, total, fcsv>>
    /\ UNCHANGED loopVars

\* health_check: prints the status or a warning, and nothing else
HealthCheck ==
    /\ pc = "health"
    /\ \E h \in HealthOutcomes :
         out' = Append(out, Line(IF h = "failed" THEN "warn" ELSE "health", 0, <<h>>))
    /\ pc' = "load"
    /\ UNCHANGED <<args, fpath, probed, exit_code, exc, loaded, f_lines, data, total, fcsv>>
    /\ UNCHANGED loopVars

\* load_jsonl(fpath), for some contents of the file
LoadJsonl ==
    /\ pc = "load"
    /\ \E lines \in FileContents :
         LET res == load_jsonl(lines) IN
         IF res.raised
         THEN /\ pc' = "crashed"
              /\ exc' = "JSONDecodeError"
              /\ exit_code' = 1
              /\ loaded' = loaded
              /\ f_lines' = lines
         ELSE /\ pc' = "truncate"
              /\ loaded' = res.out
              /\ f_lines' = lines
              /\ UNCHANGED <<exc, exit_code>>
    /\ UNCHANGED <<args, fpath, probed, data, total, fcsv, out>>
    /\ UNCHANGED loopVars

\* data = (...)[:args.n]; total = len(data); the early return on no samples
Truncate ==
    /\ pc = "truncate"
    /\ data' = Slice(loaded, args.n)
    /\ total' = Len(data')
    /\ loaded' = <<>>
    /\ f_lines' = <<>>
    /\ IF total' = 0
       THEN /\ out' = Append(out, Line("no_samples_loaded", 0, <<>>))
            /\ pc' = "done"
            /\ exit_code' = 0
       ELSE /\ out' = Append(out, Line("start", 0, <<>>))
            /\ pc' = "open"
            /\ exit_code' = exit_code
    /\ UNCHANGED <<args, fpath, probed, exc, fcsv>>
    /\ UNCHANGED loopVars

\* the export file is opened and its header written when --save_csv is given
OpenExport ==
    /\ pc = "open"
    /\ fcsv' = IF args.save_csv THEN "open" ELSE "none"
    /\ i' = 1
    /\ pc' = "loop"
    /\ UNCHANGED <<args, fpath, probed, exit_code, exc, loaded, f_lines, data, total, out>>
    /\ UNCHANGED <<ok, ems, f1s, recs, lat, rows, requests, inflight, cur, report,
                   replies, call>>

\* os.makedirs or open raises: the exception leaves main
OpenExportFails ==
    /\ pc = "open"
    /\ args.save_csv
    /\ pc' = "crashed"
    /\ exc' = "OSError"
    /\ exit_code' = 1
    /\ UNCHANGED <<args, fpath, probed, loaded, f_lines, data, total, fcsv, out>>
    /\ UNCHANGED loopVars

(* ------------------------------------------------------------------ *)
(* The per-example loop                                               *)
(* ------------------------------------------------------------------ *)
preVars == <<args, fpath, probed, loaded, f_lines, data, total, call>>
metricVars == <<ok, ems, f1s, recs, lat>>

\* mutant: the failed example is tried again
ExceptRetry(e) ==
    /\ out' = Append(out, Line("error", i, <<>>))
    /\ i' = i
    /\ pc' = "loop"
    /\ inflight' = 0
    /\ cur' = NoCur

\* except Exception as e: print the error with the index, go to the next example
\* (the text of e is not kept in the line)
Except(e) ==
    /\ out' = Append(out, Line("error", i, <<>>))
    /\ i' = i + 1
    /\ pc' = "loop"
    /\ inflight' = 0
    /\ cur' = NoCur

\* the lines a progress step prints; i % args.every raises when every is 0
ProgressRaises == ~args.progress /\ args.every = 0

ProgressLines(kind) ==
    IF args.progress THEN <<Line(kind, i, <<>>)>>
    ELSE IF i % args.every = 0 THEN <<Line("processed", i, <<>>)>>
    ELSE <<>>

\* an example without a question or without gold answers: progress, continue
\* (outside the try: a ZeroDivisionError here leaves main)
SkipExample ==
    /\ pc = "loop"
    /\ i <= total
    /\ Skippable(data[i])
    /\ IF ProgressRaises
       THEN /\ pc' = "crashed"
            /\ exc' = "ZeroDivisionError"
            /\ exit_code' = 1
            /\ UNCHANGED <<i, out>>
       ELSE /\ out' = out \o ProgressLines("skipped")
            /\ i' = i + 1
            /\ UNCHANGED <<pc, exc, exit_code>>
    /\ UNCHANGED preVars
    /\ UNCHANGED metricVars
    /\ UNCHANGED <<fcsv, rows, requests, inflight, cur, report, replies>>

\* requests.post(url, json={"question": q, "top_k": k}, timeout=...) is sent
PostRequest ==
    /\ pc = "loop"
    /\ i <= total
    /\ ~Skippable(data[i])
    /\ requests' = Append(requests, i)
    /\ inflight' = inflight + 1
    /\ pc' = "post"
    /\ UNCHANGED preVars
    /\ UNCHANGED metricVars
    /\ UNCHANGED <<exit_code, exc, i, fcsv, rows, out, cur, report, replies>>

\* mutant: no try around the request, the exception leaves main
PostRaisesAborts ==
    /\ pc = "post"
    /\ pc' = "crashed"
    /\ exc' = "ConnectionError"
    /\ exit_code' = 1
    /\ inflight' = 0
    /\ UNCHANGED preVars
    /\ UNCHANGED metricVars
    /\ UNCHANGED <<i, out, cur, fcsv, rows, requests, report, replies>>

\* requests.post raises: connection error or timeout
PostRaises ==
    /\ pc = "post"
    /\ \E e \in TransportErrors : Except(e)
    /\ UNCHANGED preVars
    /\ UNCHANGED metricVars
    /\ UNCHANGED <<exit_code, exc, fcsv, rows, requests, report, replies>>

\* mutant: no raise_for_status, the error reply is scored as an empty answer
ResponseRejectedCounted ==
    /\ pc = "post"
    /\ ems' = Append(ems, 0)
    /\ f1s' = Append(f1s, <<0, 1>>)
    /\ recs' = Append(recs, 0)
    /\ lat' = Append(lat, 1)
    /\ cur' = [em |-> 0, f1v |-> <<0, 1>>, rc |-> 0, dt |-> 1]
    /\ ok' = ok + 1
    /\ inflight' = 0
    /\ pc' = "write"
    /\ UNCHANGED preVars
    /\ UNCHANGED <<exit_code, exc, i, fcsv, rows, out, requests, report, replies>>

\* a non-2xx status: r.raise_for_status() raises
ResponseRejected ==
    /\ pc = "post"
    /\ Except("HTTPError")
    /\ UNCHANGED preVars
    /\ UNCHANGED metricVars
    /\ UNCHANGED <<exit_code, exc, fcsv, rows, requests, report, replies>>

\* a 2xx reply whose body is not the JSON object expected: r.json() or
\* resp.get raises
ResponseUndecodable ==
    /\ pc = "post"
    /\ Except("JSONDecodeError")
    /\ UNCHANGED preVars
    /\ UNCHANGED metricVars
    /\ UNCHANGED <<exit_code, exc, fcsv, rows, requests, report, replies>>

\* a 2xx reply with answer and sources: score it, append the metrics, ok += 1
ResponseScored ==
    /\ pc = "post"
    /\ GetGolds(data[i]) # <<>>    \* max() over no golds would raise
    /\ \E pred \in Answers, sources \in SourceLists, dt \in Latencies :
         LET golds == GetGolds(data[i])
             em == exact_match(pred, golds)
             f1v == f1(pred, golds)
             rc == doc_recall_at_k(sources, data[i].doc_name)
         IN  /\ ems' = Append(ems, em)
             /\ f1s' = Append(f1s, f1v)
             /\ recs' = Append(recs, rc)
             /\ lat' = Append(lat, dt)
             /\ cur' = [em |-> em, f1v |-> f1v, rc |-> rc, dt |-> dt]
             /\ replies' = Append(replies, <<i, pred>>)
    /\ ok' = ok + 1
    /\ inflight' = 0
    /\ pc' = "write"
    /\ UNCHANGED preVars
    /\ UNCHANGED <<exit_code, exc, i, fcsv, rows, out, requests, report>>

\* if writer: writer.writerow([i, em, f1v, rc, dt])
WriteRow ==
    /\ pc = "write"
    /\ rows' = IF fcsv = "open"
               THEN Append(rows, [idx |-> i, em |-> cur.em, f1 |-> cur.f1v,
                                  recall |-> cur.rc, latency_sec |-> cur.dt])
               ELSE rows
    /\ pc' = "progress"
    /\ UNCHANGED preVars
    /\ UNCHANGED metricVars
    /\ UNCHANGED <<exit_code, exc, i, fcsv, out, requests, inflight, cur, report, replies>>

\* writer.writerow raises (the disk is full, say): caught by the except clause
WriteRowFails ==
    /\ pc = "write"
    /\ fcsv = "open"
    /\ Except("OSError")
    /\ UNCHANGED preVars
    /\ UNCHANGED metricVars
    /\ UNCHANGED <<exit_code, exc, fcsv, rows, requests, report, replies>>

\* the progress output of a scored example, inside the try
PrintProgress ==
    /\ pc = "progress"
    /\ IF ProgressRaises
       THEN Except("ZeroDivisionError")
       ELSE /\ out' = out \o ProgressLines("ok")
            /\ i' = i + 1
            /\ pc' = "loop"
            /\ cur' = NoCur
            /\ UNCHANGED inflight
    /\ UNCHANGED preVars
    /\ UNCHANGED metricVars
    /\ UNCHANGED <<exit_code, exc, fcsv, rows, requests, report, replies>>

\* mutant: the loop is left one example early
CloseExportEarly ==
    /\ pc = "loop"
    /\ i >= total
    /\ fcsv' = IF fcsv = "open" THEN "closed" ELSE fcsv
    /\ pc' = "finalize"
    /\ UNCHANGED preVars
    /\ UNCHANGED metricVars
    /\ UNCHANGED <<exit_code, exc, i, rows, out, requests, inflight, cur, report, replies>>

\* the loop is exhausted; if writer: fcsv.close()
CloseExport ==
    /\ pc = "loop"
    /\ i > total
    /\ fcsv' = IF fcsv = "open" THEN "closed" ELSE fcsv
    /\ pc' = "finalize"
    /\ UNCHANGED preVars
    /\ UNCHANGED metricVars
    /\ UNCHANGED <<exit_code, exc, i, rows, out, requests, inflight, cur, report, replies>>

\* fcsv.close() raises when its last flush fails (the file is closed all the
\* same): the exception leaves main
CloseExportFails ==
    /\ pc = "loop"
    /\ i > total
    /\ fcsv = "open"
    /\ fcsv' = "closed"
    /\ pc' = "crashed"
    /\ exc' = "OSError"
    /\ exit_code' = 1
    /\ UNCHANGED preVars
    /\ UNCHANGED metricVars
    /\ UNCHANGED <<i, rows, out, requests, inflight, cur, report, replies>>

\* the no-samples-evaluated return, or the aggregate line
Finalize ==
    /\ pc = "finalize"
    /\ IF ok = 0
       THEN /\ out' = Append(out, Line("no_samples_evaluated", 0, <<>>))
            /\ report' = report
       ELSE /\ out' = Append(out, Line("report", 0, <<>>))
            /\ report' = Append(report, RunReport)
    /\ pc' = "done"
    /\ exit_code' = 0
    /\ UNCHANGED preVars
    /\ UNCHANGED metricVars
    /\ UNCHANGED <<exc, i, fcsv, rows, requests, inflight, cur, replies>>

Next ==
    \/ EnsureFile
    \/ HealthCheck
    \/ LoadJsonl
    \/ Truncate
    \/ OpenExport
    \/ OpenExportFails
    \/ SkipExample
    \/ PostRequest
    \/ PostRaises
    \/ ResponseRejected
    \/ ResponseUndecodable
    \/ ResponseScored
    \/ WriteRow
    \/ WriteRowFails
    \/ PrintProgress
    \/ CloseExport
    \/ CloseExportFails
    \/ Finalize

Spec == Init /\ [][Next]_vars

(* ------------------------------------------------------------------ *)
(* The scorer functions called on their own                           *)
(* ------------------------------------------------------------------ *)
\* an upper-case letter, a lower-case letter, whitespace, punctuation, and
\* one of the two kept punctuation characters
ScorerAlphabet == {"a", "B", " ", "!", "."}

Strs(n) == UNION {[1..m -> ScorerAlphabet] : m \in 0..n}

runVars == <<pc, args, fpath, probed, exit_code, exc, loaded, f_lines, data, total, i, ok,
             ems, f1s, recs, lat, fcsv, rows, out, requests, inflight, cur,
             report, replies>>

\* a call on strings: a prediction and its golds (gold is the first of them)
StringCall(pred, golds) ==
    [fn |-> "none", kind |-> "strings", pred |-> pred, gold |-> golds[1],
     golds |-> golds, doc |-> <<>>, sources |-> <<>>, result |-> <<>>]

\* " ".join(toks)
RECURSIVE Join(_)
Join(toks) ==
    IF toks = <<>> THEN <<>>
    ELSE IF Len(toks) = 1 THEN toks[1]
    ELSE toks[1] \o <<" ">> \o Join(Tail(toks))

\* answers of up to MaxToks tokens over the tokens a and b
TokStrs == {Join(ts) : ts \in UNION {[1..m -> {<<"a">>, <<"b">>}] : m \in 0..MaxToks}}

GoldLists == UNION {[1..m -> TokStrs] : m \in 1..MaxGolds}

\* worked examples of the scores
sAppleIncDot == <<"A","p","p","l","e"," ","I","n","c",".">>
sAppleInc == <<"A","p","p","l","e"," ","I","n","c">>
sappleinc == <<"a","p","p","l","e"," ","i","n","c">>
sAAB == <<"a"," ","a"," ","b">>
sABB == <<"a"," ","b"," ","b">>

ExampleCalls ==
    {StringCall(sAppleIncDot, <<sappleinc>>), StringCall(sAppleInc, <<sappleinc>>),
     StringCall(sAAB, <<sABB>>)}

\* paths given to doc_recall_at_k: a directory, a name and an extension; the
\* empty path is also the `source` of a record without that key
PathDirs == {<<>>, <<"r", "/">>}
PathNames == {<<>>, <<"x">>, <<"x", "y">>}
PathExts == {<<>>, <<".", "p">>, <<".", "t">>}
Paths == {d \o n \o e : d \in PathDirs, n \in PathNames, e \in PathExts}

SourcePaths == UNION {[1..m -> Paths] : m \in 0..MaxSources}

RecallCall(sources, gold_doc_name) ==
    [fn |-> "none", kind |-> "paths", pred |-> <<>>, gold |-> <<>>, golds |-> <<>>,
     doc |-> gold_doc_name, sources |-> sources, result |-> <<>>]

InitScorer ==
    /\ pc = "scorer"
    /\ args = [file |-> DEFAULT_FILE, n |-> 200, every |-> 10, progress |-> FALSE,
               save_csv |-> FALSE]
    /\ fpath = ""
    /\ probed = <<>>
    /\ exit_code = -1
    /\ exc = "none"
    /\ loaded = <<>>
    /\ f_lines = <<>>
    /\ data = <<>>
    /\ total = 0
    /\ i = 0
    /\ ok = 0
    /\ ems = <<>> /\ f1s = <<>> /\ recs = <<>> /\ lat = <<>>
    /\ fcsv = "none"
    /\ rows = <<>>
    /\ out = <<>>
    /\ requests = <<>>
    /\ inflight = 0
    /\ cur = NoCur
    /\ report = <<>>
    /\ replies = <<>>
    /\ \/ \E p \in Strs(MaxStrLen), g \in Strs(MaxGoldLen) : call = StringCall(p, <<g>>)
       \/ \E p \in Strs(MaxStrLen) : call = StringCall(p, <<p>>)
       \/ \E p \in TokStrs, gs \in GoldLists : call = StringCall(p, gs)
       \/ call \in ExampleCalls
       \/ \E ss \in SourcePaths, d \in Paths : call = RecallCall(ss, d)

\* norm(pred)
CallNorm ==
    /\ call.fn = "none"
    /\ call.kind = "strings"
    /\ call' = [call EXCEPT !.fn = "norm", !.result = norm(call.pred)]
    /\ UNCHANGED runVars

\* exact_match(pred, golds)
CallExactMatch ==
    /\ call.fn = "none"
    /\ call.kind = "strings"
    /\ call' = [call EXCEPT !.fn = "exact_match",
                            !.result = <<exact_match(call.pred, call.golds)>>]
    /\ UNCHANGED runVars

\* f1(pred, golds)
CallF1 ==
    /\ call.fn = "none"
    /\ call.kind = "strings"
    /\ call' = [call EXCEPT !.fn = "f1", !.result = f1(call.pred, call.golds)]
    /\ UNCHANGED runVars

\* doc_recall_at_k(sources, gold_doc_name)
CallDocRecall ==
    /\ call.fn = "none"
    /\ call.kind = "paths"
    /\ call' = [call EXCEPT !.fn = "doc_recall_at_k",
                            !.result = <<doc_recall_at_k(call.sources, call.doc)>>]
    /\ UNCHANGED runVars

\* em and f1v of one reply, as main computes them one after the other
CallScores ==
    /\ call.fn = "none"
    /\ call.kind = "strings"
    /\ call' = [call EXCEPT !.fn = "scores",
                            !.result = <<exact_match(call.pred, call.golds),
                                         f1(call.pred, call.golds)>>]
    /\ UNCHANGED runVars

NextScorer ==
    \/ CallNorm
    \/ CallExactMatch
    \/ CallF1
    \/ CallDocRecall
    \/ CallScores

SpecScorer == InitScorer /\ [][NextScorer]_vars

(* ------------------------------------------------------------------ *)
(* Properties                                                         *)
(* ------------------------------------------------------------------ *)
ErrorLogged(idx) == \E k \in 1..Len(out) : out[k] = Line("error", idx, <<>>)

StrictlyIncreasing(xs) == \A j, k \in 1..Len(xs) : j < k => xs[j] < xs[k]

IsPrefix(xs, ys) == Len(xs) <= Len(ys) /\ xs = SubSeq(ys, 1, Len(xs))

\* C1: when the request for example i fails (transport error, non-2xx status
\* or undecodable reply), ok and the four metric lists are unchanged, an
\* error line with index i is printed and the loop is at example i+1; after
\* the last example the loop is exhausted and the step on to the finalize
\* step is enabled.
C1_FailureIsolated ==
    /\ [][(pc = "post" /\ pc' # "write") =>
              /\ ok' = ok /\ ems' = ems /\ f1s' = f1s /\ recs' = recs /\ lat' = lat
              /\ rows' = rows
              /\ out' = Append(out, Line("error", i, <<>>))
              /\ i' = i + 1
              /\ pc' = "loop"]_vars
    /\ []((pc = "loop" /\ i > total) => ENABLED CloseExport)

\* the first request failed with nothing counted, and the second example's
\* request is under way
C1_Witness ==
    /\ pc = "post"
    /\ requests = <<1, 2>>
    /\ ErrorLogged(1)
    /\ ok = 0

\* the claim's own notion of an example to be skipped
LacksQuestion(ex) ==
    /\ ~(ex.question.t = "str" /\ ex.question.v # <<>>)
    /\ ~(ex.query.t = "str" /\ ex.query.v # <<>>)

LacksGolds(ex) == ex.answer.t = "none" \/ (ex.answer.t = "list" /\ ex.answer.v = <<>>)

MustSkip(ex) == LacksQuestion(ex) \/ LacksGolds(ex)

\* C2: an example without a question or without a gold answer is never
\* requested, never answered, never exported, and the step that passes it
\* leaves ok, the metric lists and the export rows as they are.
C2_SkippedNeverSent ==
    /\ [](/\ \A k \in 1..Len(requests) : ~MustSkip(data[requests[k]])
          /\ \A k \in 1..Len(rows) : ~MustSkip(data[rows[k].idx])
          /\ \A k \in 1..Len(replies) : ~MustSkip(data[replies[k][1]])
          /\ (pc \in {"post", "write", "progress"} => ~MustSkip(data[i])))
    /\ [][(pc = "loop" /\ i <= total /\ MustSkip(data[i])) =>
             /\ ok' = ok /\ ems' = ems /\ f1s' = f1s /\ recs' = recs /\ lat' = lat
             /\ rows' = rows /\ requests' = requests /\ inflight' = 0
             /\ pc' \in {"loop", "crashed"}]_vars

\* a run that skipped its second example and evaluated the two around it
C2_Witness ==
    /\ pc = "done"
    /\ total = 3
    /\ MustSkip(data[2])
    /\ requests = <<1, 3>>
    /\ ok = 2

\* C3 (as claimed): with an export file, between two examples and after the
\* loop the number of data rows equals ok, and the rows are in strictly
\* increasing example index.
C3_RowsEqualOk ==
    (fcsv # "none" /\ pc \in {"loop", "finalize", "done"}) =>
        /\ Len(rows) = ok
        /\ StrictlyIncreasing([k \in 1..Len(rows) |-> rows[k].idx])

\* C4 (as claimed): no run is past its loop, or ended, with the export file
\* still open.
C4_ExportClosed == pc \in {"finalize", "done", "crashed", "exited"} => fcsv # "open"

ReportLines == {k \in 1..Len(out) : out[k].k = "report"}

\* C5: the aggregate line is printed at most once, only when the run is done
\* with every example processed and ok >= 1; a run that ends with ok = 0
\* prints the no-samples-evaluated line, no aggregate, and exits with 0.
C5_ReportOnceAtEnd ==
    /\ Len(report) <= 1
    /\ Cardinality(ReportLines) = Len(report)
    /\ report # <<>> => (pc = "done" /\ i > total /\ ok >= 1 /\ exit_code = 0)
    /\ (pc = "done" /\ total > 0 /\ ok = 0) =>
          /\ report = <<>>
          /\ out[Len(out)].k = "no_samples_evaluated"
          /\ exit_code = 0

\* a run with a failed request that still printed its aggregate line
C5_Witness ==
    /\ pc = "done"
    /\ Len(report) = 1
    /\ Len(requests) > ok

\* C6: the aggregate's n is the number of examples whose request was answered
\* with a decodable 2xx reply, and its EM is the share of those whose answer
\* is an exact match of one of the example's golds.
C6_AggregatesOverSuccesses ==
    report # <<>> =>
        LET r == report[1]
            hits == {k \in 1..Len(replies) :
                       exact_match(replies[k][2], GetGolds(data[replies[k][1]])) = 1}
        IN  /\ r.n = Len(replies)
            /\ r.em = Frac(Cardinality(hits), Len(replies))
            /\ \A k \in 1..Len(replies) : replies[k][1] \in Range(requests)

\* three examples: one exact, one failed, one partial; n = 2 and EM = 1/2
C6_Witness ==
    /\ report # <<>>
    /\ requests = <<1, 2, 3>>
    /\ ErrorLogged(2)
    /\ ems = <<1, 0>>
    /\ report[1].n = 2
    /\ report[1].em = <<1, 2>>
    /\ FracLess(<<0, 1>>, f1s[2]) /\ FracLess(f1s[2], <<1, 1>>)

\* C7: at most one request is in flight, the requests are sent in increasing
\* example index, hence each example is requested at most once.
C7_SequentialNoRetry ==
    /\ inflight <= 1
    /\ (inflight = 1 <=> pc = "post")
    /\ StrictlyIncreasing(requests)
    /\ \A k \in 1..Len(requests) : requests[k] \in 1..total

\* the first example failed and was not sent again: the third request is the
\* third example's
C7_Witness ==
    /\ pc = "post"
    /\ requests = <<1, 2, 3>>
    /\ ErrorLogged(1)
    /\ ok = 0

\* C8 (as claimed): for every --n the examples of the loop are a prefix of the
\* loaded sequence with at most n examples (none when n is negative), and
\* with none left the run ends with the no-samples line and no request.
C8_PrefixAtMostN ==
    [][pc = "truncate" =>
          /\ IsPrefix(data', loaded)
          /\ Len(data') <= (IF args.n > 0 THEN args.n ELSE 0)
          /\ total' = Len(data')
          /\ (Len(data') = 0 =>
                 /\ pc' = "done"
                 /\ out' = Append(out, Line("no_samples_loaded", 0, <<>>))
                 /\ requests' = <<>>)]_vars

\* C9 (as claimed): ensure_file probes the user's path, the default path and
\* its "./" form, in that order, and returns the one probed last; when none
\* exists the message names every probed path, the exit status is not 0, and
\* no health probe, load or request has taken place.
C9_EnsureFileResolves ==
    /\ pc # "start" => IsPrefix(probed, <<args.file, DEFAULT_FILE, DotDefault>>)
    /\ (pc \notin {"start", "exited"}) => (probed # <<>> /\ fpath = probed[Len(probed)])
    /\ pc = "exited" =>
          /\ probed = <<args.file, DEFAULT_FILE, DotDefault>>
          /\ exit_code # 0
          /\ out[Len(out)].k = "notfound"
          /\ Range(probed) \subseteq Range(out[Len(out)].d)
          /\ Len(out) = 1
          /\ requests = <<>>

\* the canonical form as specified: lower-case, runs outside [a-z0-9%.] to one
\* space, whitespace collapsed, then trimmed
CanonicalForm(s) == strip(sub_spaces(sub_not_kept(lower(s))))

\* C10 (as claimed): norm returns the canonical form, which neither starts nor
\* ends with a space, and two strings with the same canonical form are an
\* exact match of each other.
C10_NormCanonical ==
    /\ call.fn = "norm" =>
          /\ call.result = CanonicalForm(call.pred)
          /\ call.result # <<>> =>
                (call.result[1] # " " /\ call.result[Len(call.result)] # " ")
    /\ (call.fn = "exact_match" /\ CanonicalForm(call.pred) = CanonicalForm(call.gold))
          => call.result = <<1>>

\* the tokens of a string read directly: the maximal runs of kept characters
\* of the lower-cased string
RECURSIVE RefTokens(_, _)
RefTokens(s, word) ==
    LET flush == IF word = <<>> THEN <<>> ELSE <<word>>
    IN  IF s = <<>> THEN flush
        ELSE IF lower_char(Head(s)) \in KeptChars
             THEN RefTokens(Tail(s), Append(word, lower_char(Head(s))))
             ELSE flush \o RefTokens(Tail(s), <<>>)

\* seq without its first occurrence of t
RECURSIVE RemoveOne(_, _)
RemoveOne(seq, t) ==
    IF seq = <<>> THEN <<>>
    ELSE IF Head(seq) = t THEN Tail(seq)
    ELSE <<Head(seq)>> \o RemoveOne(Tail(seq), t)

\* size of the multiset intersection of two token sequences
RECURSIVE RefOverlap(_, _)
RefOverlap(P, G) ==
    IF P = <<>> THEN 0
    ELSE IF \E k \in 1..Len(G) : G[k] = Head(P)
         THEN 1 + RefOverlap(Tail(P), RemoveOne(G, Head(P)))
         ELSE RefOverlap(Tail(P), G)

\* the reference score of one prediction against one gold
RefPair(p, g) ==
    LET P == RefTokens(p, <<>>)
        G == RefTokens(g, <<>>)
    IN  IF P = <<>> /\ G = <<>> THEN <<1, 1>>
        ELSE IF P = <<>> \/ G = <<>> THEN <<0, 1>>
        ELSE Frac(2 * RefOverlap(P, G), Len(P) + Len(G))

\* C11: f1(prediction, golds) is the reference score: per gold 1 when both
\* token sequences are empty, 0 when exactly one is, else
\* 2*overlap/(|prediction tokens| + |gold tokens|) with the multiset overlap;
\* the result is the largest of these over the golds and lies in [0, 1].
C11_F1IsReference ==
    (call.fn = "f1" /\ call.golds # <<>>) =>
        /\ \E k \in 1..Len(call.golds) : call.result = RefPair(call.pred, call.golds[k])
        /\ \A k \in 1..Len(call.golds) :
              ~FracLess(call.result, RefPair(call.pred, call.golds[k]))
        /\ call.result[2] > 0
        /\ 0 <= call.result[1]
        /\ call.result[1] <= call.result[2]

\* f1("a a", ["a", "a a"]): the second gold gives the maximum, with a token
\* counted twice
C11_Witness ==
    /\ call.fn = "f1"
    /\ call.pred = <<"a", " ", "a">>
    /\ call.golds = <<<<"a">>, <<"a", " ", "a">>>>
    /\ RefPair(call.pred, call.golds[1]) = <<2, 3>>
    /\ call.result = <<1, 1>>

\* C12 (as claimed): f1("Apple Inc.", ["apple inc"]) is 1.0.
C12_AppleIncDotPerfect ==
    (call.fn = "f1" /\ call.pred = sAppleIncDot /\ call.golds = <<sappleinc>>)
        => call.result = <<1, 1>>

\* C12 (amended): f1("Apple Inc.", ["apple inc"]) is 0.5, the period being a
\* kept character that makes the token "inc." differ from "inc"; a prediction
\* that differs from the gold by letter case only, "Apple Inc", scores 1.0.
C12_AppleIncDotHalf ==
    /\ (call.fn = "f1" /\ call.pred = sAppleIncDot /\ call.golds = <<sappleinc>>)
          => call.result = <<1, 2>>
    /\ (call.fn = "f1" /\ call.pred = sAppleInc /\ call.golds = <<sappleinc>>)
          => call.result = <<1, 1>>

C12_Witness ==
    /\ call.fn = "f1"
    /\ call.pred = sAppleIncDot
    /\ call.golds = <<sappleinc>>
    /\ split(norm(call.pred)) = <<<<"a","p","p","l","e">>, <<"i","n","c",".">>>>
    /\ call.result = <<1, 2>>

\* the stem of a path read from its parts: the name without directory and
\* extension; a name that is only ".p" has no extension and is its own stem
RefStem(p) ==
    LET c == CHOOSE c \in PathDirs \X PathNames \X PathExts : c[1] \o c[2] \o c[3] = p
    IN  IF c[2] = <<>> THEN c[3] ELSE c[2]

\* C13: doc_recall_at_k returns 1 exactly when the stem of gold_doc_name is
\* non-empty and equals the stem of the source of at least one record, else 0.
C13_DocRecallExactStem ==
    call.fn = "doc_recall_at_k" =>
        LET hit == /\ RefStem(call.doc) # <<>>
                   /\ \E k \in 1..Len(call.sources) :
                         RefStem(call.sources[k]) = RefStem(call.doc)
        IN  call.result = <<IF hit THEN 1 ELSE 0>>

\* gold "r/x.p" against the sources "xy.t" and "x.t": the first stem only
\* contains the gold stem, the second equals it in another directory and
\* with another extension
C13_Witness ==
    /\ call.fn = "doc_recall_at_k"
    /\ call.doc = <<"r", "/", "x", ".", "p">>
    /\ call.sources = <<<<"x", "y", ".", "t">>, <<"x", ".", "t">>>>
    /\ doc_recall_at_k(<<call.sources[1]>>, call.doc) = 0
    /\ call.result = <<1>>

\* C14: a string is an exact match of itself, and its F1 against itself is
\* 1.0 whenever its normalization is not empty.
C14_SelfMatch ==
    /\ (call.fn = "exact_match" /\ call.golds = <<call.pred>>) => call.result = <<1>>
    /\ (call.fn = "f1" /\ call.golds = <<call.pred>> /\ norm(call.pred) # <<>>)
          => call.result = <<1, 1>>

\* f1("a!B", ["a!B"]), normalized to the two tokens a and b
C14_Witness ==
    /\ call.fn = "f1"
    /\ call.pred = <<"a", "!", "B">>
    /\ call.golds = <<call.pred>>
    /\ norm(call.pred) = <<"a", " ", "b">>
    /\ call.result = <<1, 1>>

Succeeded(idx) == \E k \in 1..Len(replies) : replies[k][1] = idx

Exported(idx) == \E k \in 1..Len(rows) : rows[k].idx = idx

Sent(idx) == \E k \in 1..Len(requests) : requests[k] = idx

\* C15 (as claimed): every processed example is exactly one of skipped (never
\* sent), failed (an error line) or succeeded (counted in ok and the metric
\* lists); an example with an error line is never also counted or exported.
C15_ExactlyOneOutcome ==
    /\ \A idx \in 1..MaxLines :
          ErrorLogged(idx) => (Sent(idx) /\ ~Succeeded(idx) /\ ~Exported(idx))
    /\ pc \in {"loop", "finalize", "done"} =>
          \A idx \in 1..(i - 1) : Sent(idx) => (ErrorLogged(idx) \/ Succeeded(idx))

HealthLines == {k \in 1..Len(out) : out[k].k \in {"health", "warn"}}

\* C16: the health probe is made once, after the dataset path is resolved and
\* before any ask request, and its step changes nothing but the position of
\* the run and the one line it prints, whatever its outcome: what is loaded,
\* requested, scored and reported afterwards cannot depend on the outcome.
C16_ProbeWithoutInfluence ==
    /\ [][pc = "health" =>
              /\ pc' = "load"
              /\ \E h \in HealthOutcomes :
                    out' = Append(out, Line(IF h = "failed" THEN "warn" ELSE "health",
                                            0, <<h>>))
              /\ UNCHANGED <<args, fpath, probed, exit_code, exc, loaded, f_lines, data,
                             total, i, ok, ems, f1s, recs, lat, fcsv, rows, requests,
                             inflight, cur, report, replies, call>>]_vars
    /\ [][pc # "health" => \A k \in HealthLines : k \in 1..Len(out') /\ out'[k] = out[k]]_vars
    /\ [](pc = "health" => (requests = <<>> /\ probed # <<>> /\ fpath = probed[Len(probed)]))
    /\ [](pc \in {"start", "health", "exited"} => HealthLines = {})
    /\ [](pc \notin {"start", "health", "exited"} => Cardinality(HealthLines) = 1)

\* the probe failed, and the run went on to score an example and to report
C16_Witness ==
    /\ pc = "done"
    /\ \E k \in HealthLines : out[k].k = "warn"
    /\ ok >= 1
    /\ Len(report) = 1

\* the parsed objects of the non-blank lines, in file order
ObjectsOf(lines) ==
    LET nonblank == SelectSeq(lines, LAMBDA l : l.t # "blank")
    IN  [k \in 1..Len(nonblank) |-> nonblank[k].ex]

HasMalformed(lines) == \E k \in 1..Len(lines) : lines[k].t = "bad"

\* C17: load_jsonl returns the parsed objects of the non-blank lines in file
\* order; a malformed non-blank line anywhere in the file, beyond the first N
\* lines too, ends the run with the parse failure before any ask request and
\* before the export file is opened; no malformed line is skipped.
C17_LoadAllOrFail ==
    /\ [][pc = "load" =>
              IF HasMalformed(f_lines')
              THEN /\ pc' = "crashed"
                   /\ exc' = "JSONDecodeError"
                   /\ exit_code' # 0
              ELSE /\ pc' = "truncate"
                   /\ loaded' = ObjectsOf(f_lines')]_vars
    /\ [](pc = "truncate" => ~HasMalformed(f_lines))
    /\ []((pc = "crashed" /\ exc = "JSONDecodeError") =>
              /\ requests = <<>>
              /\ fcsv = "none"
              /\ rows = <<>>
              /\ report = <<>>
              /\ ~ENABLED Next)

\* --n 1 and a file whose third line is malformed: the run ends in the loader
C17_Witness ==
    /\ pc = "crashed"
    /\ exc = "JSONDecodeError"
    /\ args.n = 1
    /\ Len(f_lines) = 3
    /\ f_lines[1].t = "obj"
    /\ f_lines[2].t = "blank"
    /\ f_lines[3].t = "bad"
    /\ requests = <<>>

\* C18: whenever exact_match(p, G) is 1 for a non-empty list of golds G,
\* f1(p, G) is 1.0.
C18_ExactMatchImpliesPerfectF1 ==
    (call.fn = "scores" /\ call.golds # <<>> /\ call.result[1] = 1)
        => call.result[2] = <<1, 1>>

\* "a b" against the golds "a" and "a b": the match is with the second gold
C18_Witness ==
    /\ call.fn = "scores"
    /\ call.pred = sAB
    /\ call.golds = <<sA, sAB>>
    /\ f1_pair(call.pred, call.golds[1]) = <<2, 3>>
    /\ call.result = <<1, <<1, 1>>>>

====
